---- MODULE Spec2Model ----
(***************************************************************************)
(* GuiMenu (src/src/gui_menu.cpp): the focus-driven menu of pie_noon.      *)
(* The menu owns button_list_, image_list_, current_focus_ and the queue   *)
(* unhandled_selections_.  One action per public operation of GuiMenu,     *)
(* plus the host's writes to a button's flags through the pointer that     *)
(* FindButtonById hands out.                                               *)
(***************************************************************************)
EXTENDS Integers, Sequences, FiniteSets, TLC

VARIABLES
  button_list_,           \* std::vector<TouchscreenButton>
  image_list_,            \* std::vector<StaticImage>
  current_focus_,         \* ButtonId
  unhandled_selections_,  \* std::queue<MenuSelection>
  last                    \* the recorded call, NoCall while none is recorded

vars == <<button_list_, image_list_, current_focus_, unhandled_selections_, last>>

----------------------------------------------------------------------------
(* Bounds of the model. *)

\* Unrecorded HandleControllerInput calls are explored while they leave at most
\* MaxQueue events in the queue; a recorded call is not limited.
MaxQueue == 1

\* A recorded run of GetRecentSelection calls has at most MaxDrain calls.
MaxDrain == 5

----------------------------------------------------------------------------
(* Identities, input sources, logical inputs. *)

ButtonId_Undefined == "Undefined"
ButtonId_InvalidInput == "InvalidInput"
ButtonId_Cancel == "Cancel"

\* The identities menu definitions use for buttons, images and destinations.
WidgetIds == {"A", "B", "C"}

ButtonIds == WidgetIds \cup {ButtonId_Undefined, ButtonId_InvalidInput, ButtonId_Cancel}

\* The identities the host passes to SetFocus.
FocusIds == WidgetIds \cup {ButtonId_Undefined}

kTouchController == "kTouchController"
kUndefinedController == "kUndefinedController"

\* The controller identities the host passes to HandleControllerInput.
ControllerIds == {"pad0"}

LogicalInputs_Up == "Up"
LogicalInputs_Down == "Down"
LogicalInputs_Left == "Left"
LogicalInputs_Right == "Right"
LogicalInputs_Select == "Select"
LogicalInputs_Cancel == "Cancel"

Directions == {LogicalInputs_Up, LogicalInputs_Down, LogicalInputs_Left, LogicalInputs_Right}

\* A logical_input bitmask is the set of the bits asserted in it.
LogicalInputs == Directions \cup {LogicalInputs_Select, LogicalInputs_Cancel}

\* MenuSelection(button_id, controller_id).  stale is bookkeeping of the model:
\* FALSE when the event is pushed, set by AdvanceFrame on every event that was
\* already queued when the frame began.
MenuSelection(button_id, controller_id) ==
  [button_id |-> button_id, controller_id |-> controller_id, stale |-> FALSE]

----------------------------------------------------------------------------
(* Menu definitions (UiGroup, ButtonDef, StaticImageDef). *)

\* A flatbuffers vector pointer: nullptr, or a vector.
NullVector == [null |-> TRUE, v |-> <<>>]
Vector(s) == [null |-> FALSE, v |-> s]

ButtonDef(id, starts_active, up, down, left, right) ==
  [ID |-> id, starts_active |-> starts_active,
   nav_up |-> up, nav_down |-> down, nav_left |-> left, nav_right |-> right]

StaticImageDef(id, render_after_buttons) ==
  [ID |-> id, render_after_buttons |-> render_after_buttons]

UiGroup(buttons, images, starting_selection) ==
  [button_list |-> buttons, static_image_list |-> images,
   starting_selection |-> starting_selection]

\* A (up -> [B]) and B, which starts inactive; no static images.
MenuTwo ==
  UiGroup(Vector(<<ButtonDef("A", TRUE, Vector(<<"B">>), NullVector, Vector(<<>>),
                             Vector(<<"C">>)),
                   ButtonDef("B", FALSE, NullVector, Vector(<<"C", "B", "A">>), NullVector,
                             NullVector)>>),
          NullVector, "A")

\* Two buttons declare the identity B and two images the identity A; the
\* starting selection is an identity no button declares.
MenuDup ==
  UiGroup(Vector(<<ButtonDef("A", TRUE, Vector(<<"B">>), Vector(<<"B", "A">>), NullVector,
                             Vector(<<"A">>)),
                   ButtonDef("B", TRUE, Vector(<<"A">>), NullVector, NullVector, NullVector),
                   ButtonDef("B", FALSE, NullVector, Vector(<<"A">>), NullVector,
                             NullVector)>>),
          Vector(<<StaticImageDef("A", TRUE), StaticImageDef("B", FALSE),
                   StaticImageDef("A", FALSE)>>), "C")

\* The menu definitions live in the host's configuration buffer; the menu and
\* its buttons hold pointers into it.  A UiGroup pointer is nullptr or the name
\* of a definition; a ButtonDef or StaticImageDef pointer is a definition's
\* name and a position in its list.
nullptr == "nullptr"

MenuDefs == {nullptr, "MenuTwo", "MenuDup"}

UiGroupAt(menu_def) == IF menu_def = "MenuTwo" THEN MenuTwo ELSE MenuDup

ButtonDefAt(button_def) == UiGroupAt(button_def.menu_def).button_list.v[button_def.i]

StaticImageDefAt(image_def) ==
  UiGroupAt(image_def.menu_def).static_image_list.v[image_def.i]

\* Every definition here names one normal texture per button and per image, no
\* pressed texture and no shader of its own, so the shaders looked up are the
\* menu's default_shader and default_inactive_shader.
texture_name == "texture"
default_shader == "default_shader"
default_inactive_shader == "default_inactive_shader"

\* A MaterialManager is the set of the asset names it resolves; FindMaterial
\* and FindShader return a handle (TRUE) or nullptr (FALSE).
AssetNames == {texture_name, default_shader, default_inactive_shader}

FindMaterial(matman, name) == name \in matman

FindShader(matman, name) == name \in matman

----------------------------------------------------------------------------
(* Buttons and images. *)

\* TouchscreenButton(): a fresh button, visible and active, not highlighted,
\* with no definition yet.
TouchscreenButton ==
  [button_def |-> [menu_def |-> nullptr, i |-> 0],
   up_material |-> FALSE, shader |-> FALSE, inactive_shader |-> FALSE,
   is_active |-> TRUE, is_visible |-> TRUE, is_highlighted |-> FALSE]

\* TouchscreenButton::GetId(): the identity its definition declares.
GetId(button) == ButtonDefAt(button.button_def).ID

\* The body of Setup's loop over the declared buttons, for button i of menu_def.
SetupButton(menu_def, matman, i) ==
  LET button == [menu_def |-> menu_def, i |-> i]
  IN [TouchscreenButton EXCEPT !.up_material = FindMaterial(matman, texture_name),
                               !.shader = FindShader(matman, default_shader),
                               !.inactive_shader =
                                 FindShader(matman, default_inactive_shader),
                               !.button_def = button,
                               !.is_active = ButtonDefAt(button).starts_active,
                               !.is_highlighted = TRUE]

\* The body of Setup's loop over the declared images, for image i of menu_def:
\* StaticImage::Initialize(image_def, materials, shader, ...).
SetupImage(menu_def, matman, i) ==
  [image_def |-> [menu_def |-> menu_def, i |-> i],
   materials |-> FindMaterial(matman, texture_name),
   shader |-> FindShader(matman, default_shader)]

\* ArrayLength(array): 0 for nullptr, else the vector's length.
ArrayLength(array) == IF array.null THEN 0 ELSE Len(array.v)

\* FindButtonById's loop returning the last button with this identity.
RECURSIVE FindLastButtonByIdFrom(_, _, _)
FindLastButtonByIdFrom(buttons, id, i) ==
  IF i > Len(buttons) THEN 0
  ELSE LET later == FindLastButtonByIdFrom(buttons, id, i + 1)
       IN IF later # 0 THEN later
          ELSE IF GetId(buttons[i]) = id THEN i ELSE 0

\* FindButtonById: the index of the first button with this identity, 0 for nullptr.
RECURSIVE FindButtonByIdFrom(_, _, _)
FindButtonByIdFrom(buttons, id, i) ==
  IF i > Len(buttons) THEN 0
  ELSE IF GetId(buttons[i]) = id THEN i
  ELSE FindButtonByIdFrom(buttons, id, i + 1)

FindButtonById(buttons, id) == FindButtonByIdFrom(buttons, id, 1)

\* StaticImage::GetId(): the identity its definition declares.
GetImageId(image) == StaticImageDefAt(image.image_def).ID

\* FindImageById: the index of the first image with this identity, 0 for nullptr.
RECURSIVE FindImageByIdFrom(_, _, _)
FindImageByIdFrom(images, id, i) ==
  IF i > Len(images) THEN 0
  ELSE IF GetImageId(images[i]) = id THEN i
  ELSE FindImageByIdFrom(images, id, i + 1)

FindImageById(images, id) == FindImageByIdFrom(images, id, 1)

\* Setup's loop over the buttons leaving out a button whose shader is not found.
SetupButtonsSkippingUnresolved(menu_def, matman) ==
  SelectSeq([i \in 1..ArrayLength(UiGroupAt(menu_def).button_list) |->
               SetupButton(menu_def, matman, i)],
            LAMBDA button : button.shader)

\* Setup's loop over the buttons: button_list_ after resize and the loop.
SetupButtons(menu_def, matman) ==
  [i \in 1..ArrayLength(UiGroupAt(menu_def).button_list) |->
     SetupButton(menu_def, matman, i)]

\* Setup's loop over the images: image_list_ after resize and the loop.
SetupImages(menu_def, matman) ==
  [i \in 1..ArrayLength(UiGroupAt(menu_def).static_image_list) |->
     SetupImage(menu_def, matman, i)]

\* Setup's branch for nullptr leaving the focus as it is.
SetupNothingKeepsFocus(buttons, images, focus) ==
  [button_list_ |-> <<>>, image_list_ |-> <<>>, current_focus_ |-> focus]

\* Setup's branch for menu_def == nullptr: both vectors are resized to 0 and
\* the focus is ButtonId_Undefined.
SetupNothing(buttons, images, focus) ==
  [button_list_ |-> SubSeq(buttons, 1, 0), image_list_ |-> SubSeq(images, 1, 0),
   current_focus_ |-> ButtonId_Undefined]

\* ClearRecentSelections leaving the queue as it is.
ClearRecentSelectionsKeeps(queue) == queue

\* ClearRecentSelections: swap the queue with an empty one.
ClearRecentSelections(queue) == <<>>

----------------------------------------------------------------------------
(* Navigation. A menu state here is the pair (current_focus_, queue). *)

MenuState(focus, queue) == [current_focus_ |-> focus, unhandled_selections_ |-> queue]

\* SetFocus(new_focus) on a menu state.
SetFocusIn(m, new_focus) == [m EXCEPT !.current_focus_ = new_focus]

\* The end of UpdateFocus: the navigation-failure event is pushed.
NavigationFailed(m) ==
  [m EXCEPT !.unhandled_selections_ =
     Append(@, MenuSelection(ButtonId_InvalidInput, kTouchController))]

\* The loop of UpdateFocus without the visibility test: any existing
\* destination wins.
RECURSIVE UpdateFocusFromAnyExisting(_, _, _, _)
UpdateFocusFromAnyExisting(buttons, m, destination_list, i) ==
  IF i > Len(destination_list.v) THEN NavigationFailed(m)
  ELSE IF FindButtonById(buttons, destination_list.v[i]) # 0
       THEN SetFocusIn(m, destination_list.v[i])
       ELSE UpdateFocusFromAnyExisting(buttons, m, destination_list, i + 1)

\* The loop of UpdateFocus from position i (1-based) of a destination list that
\* is not nullptr; when it ends without a destination, control falls through to
\* the push of the navigation-failure event.
RECURSIVE UpdateFocusFrom(_, _, _, _)
UpdateFocusFrom(buttons, m, destination_list, i) ==
  IF i > Len(destination_list.v) THEN NavigationFailed(m)
  ELSE LET destination_id == destination_list.v[i]
           destination == FindButtonById(buttons, destination_id)
       IN IF destination # 0 /\ buttons[destination].is_visible
          THEN SetFocusIn(m, destination_id)
          ELSE UpdateFocusFrom(buttons, m, destination_list, i + 1)

\* UpdateFocus scanning the destination list from its end.
UpdateFocusFromTheEnd(buttons, m, destination_list) ==
  IF destination_list.null THEN NavigationFailed(m)
  ELSE UpdateFocusFrom(buttons, m,
                       [destination_list EXCEPT !.v =
                          [k \in 1..Len(@) |-> @[Len(@) + 1 - k]]], 1)

\* UpdateFocus returning at once, without an event, when the list is absent.
UpdateFocusSilentWhenAbsent(buttons, m, destination_list) ==
  IF destination_list.null THEN m ELSE UpdateFocusFrom(buttons, m, destination_list, 1)

UpdateFocus(buttons, m, destination_list) ==
  IF destination_list.null THEN NavigationFailed(m)
  ELSE UpdateFocusFrom(buttons, m, destination_list, 1)

\* One direction's if-statement of HandleControllerInput.
Navigate(buttons, m, logical_input, bit, destination_list) ==
  IF bit \in logical_input THEN UpdateFocus(buttons, m, destination_list) ELSE m

\* The select if-statement pushing the undefined identity for an inactive button.
PushSelectUndefinedWhenInactive(buttons, m, logical_input, controller_id, current_focus_button_) ==
  IF LogicalInputs_Select \in logical_input
  THEN [m EXCEPT !.unhandled_selections_ =
          Append(@, MenuSelection(IF buttons[current_focus_button_].is_active
                                  THEN m.current_focus_
                                  ELSE ButtonId_Undefined,
                                  controller_id))]
  ELSE m

\* The select if-statement: activity is read from the button found at entry,
\* the identity from current_focus_ as it is now.
PushSelect(buttons, m, logical_input, controller_id, current_focus_button_) ==
  IF LogicalInputs_Select \in logical_input
  THEN [m EXCEPT !.unhandled_selections_ =
          Append(@, MenuSelection(IF buttons[current_focus_button_].is_active
                                  THEN m.current_focus_
                                  ELSE ButtonId_InvalidInput,
                                  controller_id))]
  ELSE m

\* The cancel if-statement.
PushCancel(m, logical_input, controller_id) ==
  IF LogicalInputs_Cancel \in logical_input
  THEN [m EXCEPT !.unhandled_selections_ = Append(@, MenuSelection(ButtonId_Cancel, controller_id))]
  ELSE m

\* The four direction if-statements, each reading its list from the definition
\* of the button in focus when the direction is handled.
NavigatedReresolving(buttons, m, logical_input, current_def) ==
  LET DefOf(mk) == ButtonDefAt(buttons[FindButtonById(buttons, mk.current_focus_)].button_def)
      m1 == Navigate(buttons, m, logical_input, LogicalInputs_Up, DefOf(m).nav_up)
      m2 == Navigate(buttons, m1, logical_input, LogicalInputs_Down, DefOf(m1).nav_down)
      m3 == Navigate(buttons, m2, logical_input, LogicalInputs_Left, DefOf(m2).nav_left)
  IN Navigate(buttons, m3, logical_input, LogicalInputs_Right, DefOf(m3).nav_right)

\* The four direction if-statements, in the order up, down, left, right; each
\* reads its list from current_def, the definition of the button found at entry.
Navigated(buttons, m, logical_input, current_def) ==
  LET m1 == Navigate(buttons, m, logical_input, LogicalInputs_Up, current_def.nav_up)
      m2 == Navigate(buttons, m1, logical_input, LogicalInputs_Down, current_def.nav_down)
      m3 == Navigate(buttons, m2, logical_input, LogicalInputs_Left, current_def.nav_left)
  IN Navigate(buttons, m3, logical_input, LogicalInputs_Right, current_def.nav_right)

\* HandleInputs with the cancel event pushed before the select event.
HandleInputsCancelFirst(buttons, m, logical_input, controller_id, current_focus_button_) ==
  PushSelect(buttons,
             PushCancel(Navigated(buttons, m, logical_input,
                                  ButtonDefAt(buttons[current_focus_button_].button_def)),
                        logical_input, controller_id),
             logical_input, controller_id, current_focus_button_)

\* HandleControllerInput after its early return: the directions, then select,
\* then cancel.
HandleInputs(buttons, m, logical_input, controller_id, current_focus_button_) ==
  PushCancel(PushSelect(buttons,
                        Navigated(buttons, m, logical_input,
                                  ButtonDefAt(buttons[current_focus_button_].button_def)),
                        logical_input, controller_id, current_focus_button_),
             logical_input, controller_id)

\* HandleControllerInput pushing the cancel event before it looks for the
\* focused button.
HandleControllerInputCancelUnchecked(buttons, m, logical_input, controller_id) ==
  LET current_focus_button_ == FindButtonById(buttons, m.current_focus_)
  IN IF current_focus_button_ = 0 THEN PushCancel(m, logical_input, controller_id)
     ELSE HandleInputs(buttons, m, logical_input, controller_id, current_focus_button_)

\* HandleControllerInput returning early also when the focused button is hidden.
HandleControllerInputVisibleOnly(buttons, m, logical_input, controller_id) ==
  LET current_focus_button_ == FindButtonById(buttons, m.current_focus_)
  IN IF current_focus_button_ = 0 \/ ~buttons[current_focus_button_].is_visible THEN m
     ELSE HandleInputs(buttons, m, logical_input, controller_id, current_focus_button_)

\* HandleControllerInput(logical_input, controller_id) on a menu state.
HandleControllerInputOn(buttons, m, logical_input, controller_id) ==
  LET current_focus_button_ == FindButtonById(buttons, m.current_focus_)
  IN IF current_focus_button_ = 0 THEN m
     ELSE HandleInputs(buttons, m, logical_input, controller_id, current_focus_button_)

----------------------------------------------------------------------------
(* The per-frame advance. *)

\* Every event queued when the frame begins is from an earlier frame.
MarkStale(queue) == [k \in 1..Len(queue) |-> [queue[k] EXCEPT !.stale = TRUE]]

\* The loop of AdvanceFrame pushing a triggered button's identity whether the
\* button is active or not.
RECURSIVE AdvanceButtonsIgnoringActive(_, _, _, _, _)
AdvanceButtonsIgnoringActive(buttons, focus, queue, triggered, i) ==
  IF i > Len(buttons) THEN [button_list_ |-> buttons, unhandled_selections_ |-> queue]
  ELSE AdvanceButtonsIgnoringActive(
         [buttons EXCEPT ![i].is_highlighted = (focus = GetId(buttons[i]))], focus,
         IF i \in triggered
         THEN Append(queue, MenuSelection(GetId(buttons[i]), kTouchController))
         ELSE queue,
         triggered, i + 1)

\* The loop of AdvanceFrame leaving every button's highlight flag as it finds it.
RECURSIVE AdvanceButtonsKeepingHighlight(_, _, _, _, _)
AdvanceButtonsKeepingHighlight(buttons, focus, queue, triggered, i) ==
  IF i > Len(buttons) THEN [button_list_ |-> buttons, unhandled_selections_ |-> queue]
  ELSE AdvanceButtonsKeepingHighlight(
         buttons, focus,
         IF i \in triggered
         THEN Append(queue, MenuSelection(IF buttons[i].is_active THEN GetId(buttons[i])
                                          ELSE ButtonId_InvalidInput,
                                          kTouchController))
         ELSE queue,
         triggered, i + 1)

\* The loop of AdvanceFrame from button i on; triggered is the set of indices
\* of the buttons whose IsTriggered() is true after their own AdvanceFrame.
RECURSIVE AdvanceButtonsFrom(_, _, _, _, _)
AdvanceButtonsFrom(buttons, focus, queue, triggered, i) ==
  IF i > Len(buttons) THEN [button_list_ |-> buttons, unhandled_selections_ |-> queue]
  ELSE LET current_button ==
             [buttons[i] EXCEPT !.is_highlighted = (focus = GetId(buttons[i]))]
           pushed ==
             IF i \in triggered
             THEN Append(queue, MenuSelection(IF current_button.is_active
                                              THEN GetId(current_button)
                                              ELSE ButtonId_InvalidInput,
                                              kTouchController))
             ELSE queue
       IN AdvanceButtonsFrom([buttons EXCEPT ![i] = current_button], focus, pushed,
                             triggered, i + 1)

AdvanceFrameOn(buttons, focus, queue, triggered) ==
  AdvanceButtonsFrom(buttons, focus, ClearRecentSelections(MarkStale(queue)), triggered, 1)

----------------------------------------------------------------------------
(* Rendering: the draw calls of one Render, in the order they are issued. *)

RenderButton(i) == [kind |-> "TouchscreenButton", i |-> i]

RenderImage(i) == [kind |-> "StaticImage", i |-> i]

\* One loop of Render over image_list_: the images whose render_after_buttons
\* flag is after.
RenderImages(images, after) ==
  SelectSeq([i \in 1..Len(images) |-> RenderImage(i)],
            LAMBDA call : StaticImageDefAt(images[call.i].image_def).render_after_buttons
                            = after)

RenderButtons(buttons) == [i \in 1..Len(buttons) |-> RenderButton(i)]

\* Render drawing every image in one pass before the buttons.
RenderImagesFirst(buttons, images) ==
  [i \in 1..Len(images) |-> RenderImage(i)] \o RenderButtons(buttons)

RenderOn(buttons, images) ==
  RenderImages(images, FALSE) \o RenderButtons(buttons) \o RenderImages(images, TRUE)

----------------------------------------------------------------------------
(* The record of a call.                                                   *)
(*                                                                         *)
(* A behaviour makes any number of calls unrecorded and may end with one   *)
(* recorded call, or with one recorded run of consecutive                  *)
(* GetRecentSelection calls.  last holds the recorded call: its arguments, *)
(* the focus and the queue it found, and what it returned.  Exploration    *)
(* does not go on after a recorded call, so every reachable state is       *)
(* explored once, however it was reached, and every call from it is        *)
(* recorded once.                                                          *)

NoCall ==
  [op |-> "none", menu_def |-> nullptr, matman |-> {}, new_focus |-> ButtonId_Undefined,
   triggered |-> {}, logical_input |-> {}, controller_id |-> kUndefinedController,
   id |-> ButtonId_Undefined, found |-> 0, draws |-> <<>>,
   current_focus_ |-> ButtonId_Undefined, unhandled_selections_ |-> <<>>, rets |-> <<>>]

\* The call op, made in the present state.
Call(op) ==
  [NoCall EXCEPT !.op = op,
                 !.current_focus_ = current_focus_,
                 !.unhandled_selections_ = unhandled_selections_]

Record(rec, call) == IF rec THEN call ELSE NoCall

\* No call is recorded yet.
Unrecorded == last = NoCall

----------------------------------------------------------------------------
(* The state machine. *)

\* GuiMenu::GuiMenu() {}: the vectors and the queue are empty; current_focus_
\* is not initialised, so it holds any ButtonId.
Init ==
  /\ button_list_ = <<>>
  /\ image_list_ = <<>>
  /\ current_focus_ \in ButtonIds
  /\ unhandled_selections_ = <<>>
  /\ last = NoCall

\* An unrecorded Setup is explored with a material manager that resolves every
\* name; a recorded one with any material manager.
Setup(menu_def, matman, rec) ==
  /\ Unrecorded
  /\ rec \/ matman = AssetNames
  /\ unhandled_selections_' = ClearRecentSelections(unhandled_selections_)
  /\ IF menu_def = nullptr
     THEN LET r == SetupNothing(button_list_, image_list_, current_focus_)
          IN /\ button_list_' = r.button_list_
             /\ image_list_' = r.image_list_
             /\ current_focus_' = r.current_focus_
     ELSE /\ button_list_' = SetupButtons(menu_def, matman)
          /\ image_list_' = SetupImages(menu_def, matman)
          /\ current_focus_' = UiGroupAt(menu_def).starting_selection
  /\ last' = Record(rec, [Call("Setup") EXCEPT !.menu_def = menu_def,
                                               !.matman = matman])

SetFocus(new_focus, rec) ==
  /\ Unrecorded
  /\ current_focus_' = SetFocusIn(MenuState(current_focus_, unhandled_selections_),
                                  new_focus).current_focus_
  /\ last' = Record(rec, [Call("SetFocus") EXCEPT !.new_focus = new_focus])
  /\ UNCHANGED <<button_list_, image_list_, unhandled_selections_>>

\* AdvanceFrame taking the focus off a focused button that is hidden.
AdvanceFrameDroppingHiddenFocus(triggered, rec) ==
  LET r == AdvanceFrameOn(button_list_, current_focus_, unhandled_selections_, triggered)
      focused == FindButtonById(button_list_, current_focus_)
  IN /\ Unrecorded
     /\ button_list_' = r.button_list_
     /\ unhandled_selections_' = r.unhandled_selections_
     /\ current_focus_' = IF focused # 0 /\ ~button_list_[focused].is_visible
                          THEN ButtonId_Undefined ELSE current_focus_
     /\ last' = Record(rec, [Call("AdvanceFrame") EXCEPT !.triggered = triggered])
     /\ UNCHANGED image_list_

AdvanceFrame(triggered, rec) ==
  LET r == AdvanceFrameOn(button_list_, current_focus_, unhandled_selections_, triggered)
  IN /\ Unrecorded
     /\ button_list_' = r.button_list_
     /\ unhandled_selections_' = r.unhandled_selections_
     /\ last' = Record(rec, [Call("AdvanceFrame") EXCEPT !.triggered = triggered])
     /\ UNCHANGED <<image_list_, current_focus_>>

HandleControllerInput(logical_input, controller_id, rec) ==
  LET m == HandleControllerInputOn(button_list_,
                                   MenuState(current_focus_, unhandled_selections_),
                                   logical_input, controller_id)
  IN /\ Unrecorded
     /\ rec \/ Len(m.unhandled_selections_) <= MaxQueue
     /\ current_focus_' = m.current_focus_
     /\ unhandled_selections_' = m.unhandled_selections_
     /\ last' = Record(rec, [Call("HandleControllerInput") EXCEPT
                               !.logical_input = logical_input,
                               !.controller_id = controller_id])
     /\ UNCHANGED <<button_list_, image_list_>>

\* GetRecentSelection taking the newest event instead of the oldest.
GetRecentSelectionFromBack(queue) ==
  IF queue = <<>>
  THEN [ret |-> MenuSelection(ButtonId_Undefined, kUndefinedController), queue |-> queue]
  ELSE [ret |-> queue[Len(queue)], queue |-> SubSeq(queue, 1, Len(queue) - 1)]

\* GetRecentSelection answering an empty queue with the invalid-input identity.
GetRecentSelectionEmptyIsInvalid(queue) ==
  IF queue = <<>>
  THEN [ret |-> MenuSelection(ButtonId_InvalidInput, kUndefinedController), queue |-> queue]
  ELSE [ret |-> Head(queue), queue |-> Tail(queue)]

\* GetRecentSelection's return value and the queue it leaves.
GetRecentSelectionOn(queue) ==
  IF queue = <<>>
  THEN [ret |-> MenuSelection(ButtonId_Undefined, kUndefinedController), queue |-> queue]
  ELSE [ret |-> Head(queue), queue |-> Tail(queue)]

\* A recorded call starts a run or goes on with the recorded one; rets is the
\* sequence of the values the run's calls returned.
GetRecentSelection(rec) ==
  LET r == GetRecentSelectionOn(unhandled_selections_)
      run == IF last = NoCall THEN Call("GetRecentSelection") ELSE last
  IN /\ Unrecorded \/ (rec /\ last.op = "GetRecentSelection")
     /\ Len(run.rets) < MaxDrain
     /\ unhandled_selections_' = r.queue
     /\ last' = Record(rec, [run EXCEPT !.rets = Append(@, r.ret)])
     /\ UNCHANGED <<button_list_, image_list_, current_focus_>>

\* The host shows or hides button i: FindButtonById(id)->set_is_visible(...).
SetIsVisible(i, rec) ==
  /\ Unrecorded
  /\ button_list_' = [button_list_ EXCEPT ![i].is_visible = ~@]
  /\ last' = Record(rec, Call("set_is_visible"))
  /\ UNCHANGED <<image_list_, current_focus_, unhandled_selections_>>

\* Render(renderer): draws, changes no member.
Render(rec) ==
  /\ Unrecorded
  /\ last' = Record(rec, [Call("Render") EXCEPT !.draws = RenderOn(button_list_, image_list_)])
  /\ UNCHANGED <<button_list_, image_list_, current_focus_, unhandled_selections_>>

\* The host's call of FindButtonById(id); found is the index of the button the
\* returned pointer points to, 0 for nullptr.
CallFindButtonById(id, rec) ==
  /\ Unrecorded
  /\ last' = Record(rec, [Call("FindButtonById") EXCEPT
                            !.id = id, !.found = FindButtonById(button_list_, id)])
  /\ UNCHANGED <<button_list_, image_list_, current_focus_, unhandled_selections_>>

\* The host's call of FindImageById(id).
CallFindImageById(id, rec) ==
  /\ Unrecorded
  /\ last' = Record(rec, [Call("FindImageById") EXCEPT
                            !.id = id, !.found = FindImageById(image_list_, id)])
  /\ UNCHANGED <<button_list_, image_list_, current_focus_, unhandled_selections_>>

Next ==
  \/ \E menu_def \in MenuDefs, matman \in SUBSET AssetNames, rec \in BOOLEAN :
       Setup(menu_def, matman, rec)
  \/ \E new_focus \in FocusIds, rec \in BOOLEAN : SetFocus(new_focus, rec)
  \/ \E triggered \in SUBSET (1..Len(button_list_)), rec \in BOOLEAN :
       AdvanceFrame(triggered, rec)
  \/ \E logical_input \in SUBSET LogicalInputs, controller_id \in ControllerIds,
        rec \in BOOLEAN :
       HandleControllerInput(logical_input, controller_id, rec)
  \/ \E rec \in BOOLEAN : GetRecentSelection(rec)
  \/ \E i \in 1..Len(button_list_), rec \in BOOLEAN : SetIsVisible(i, rec)
  \/ \E rec \in BOOLEAN : Render(rec)
  \/ \E id \in ButtonIds, rec \in BOOLEAN : CallFindButtonById(id, rec)
  \/ \E id \in ButtonIds, rec \in BOOLEAN : CallFindImageById(id, rec)

Spec == Init /\ [][Next]_vars

----------------------------------------------------------------------------
(* Vocabulary of the properties: stated on the recorded call, its          *)
(* arguments, the state it found and the state it left.                    *)

IsHandleControllerInput == last.op = "HandleControllerInput"

\* The buttons declaring the identity id, and the one a lookup by id resolves
\* to: the first of them in collection order (0 when there is none).
Declaring(id) == {i \in 1..Len(button_list_) : GetId(button_list_[i]) = id}

Resolved(id) ==
  IF Declaring(id) = {} THEN 0
  ELSE CHOOSE i \in Declaring(id) : \A j \in Declaring(id) : i <= j

\* id resolves to a button that is visible.
Navigable(id) == Resolved(id) # 0 /\ button_list_[Resolved(id)].is_visible

\* The button that held focus when the recorded call began (0 when none).
FocusedAtEntry == Resolved(last.current_focus_)

\* The candidate list of the button focused at entry, for a direction.
Candidates(d) ==
  LET def == ButtonDefAt(button_list_[FocusedAtEntry].button_def)
      list == CASE d = LogicalInputs_Up -> def.nav_up
                [] d = LogicalInputs_Down -> def.nav_down
                [] d = LogicalInputs_Left -> def.nav_left
                [] d = LogicalInputs_Right -> def.nav_right
  IN IF list.null THEN <<>> ELSE list.v

\* The positions of a direction's candidates that resolve to a visible button.
NavigablePositions(d) == {k \in 1..Len(Candidates(d)) : Navigable(Candidates(d)[k])}

\* The asserted directions of the recorded call that find no destination.
DeadEnds == {d \in last.logical_input \cap Directions : NavigablePositions(d) = {}}

\* The events the recorded call appended, when it kept what was queued.
KeepsQueued ==
  /\ Len(unhandled_selections_) >= Len(last.unhandled_selections_)
  /\ SubSeq(unhandled_selections_, 1, Len(last.unhandled_selections_))
       = last.unhandled_selections_

Appended ==
  SubSeq(unhandled_selections_, Len(last.unhandled_selections_) + 1,
         Len(unhandled_selections_))

NavigationFailure == MenuSelection(ButtonId_InvalidInput, kTouchController)

----------------------------------------------------------------------------
(* C1.  After any HandleControllerInput call the focus is either what it   *)
(* was before the call or the identity of a button that is in the          *)
(* collection and is visible.                                              *)

C1_FocusUnchangedOrVisible ==
  IsHandleControllerInput =>
    \/ current_focus_ = last.current_focus_
    \/ \E i \in Declaring(current_focus_) : button_list_[i].is_visible

\* A call moved the focus while some button of the menu was hidden.
C1_Witness ==
  /\ IsHandleControllerInput
  /\ current_focus_ # last.current_focus_
  /\ \E i \in 1..Len(button_list_) : ~button_list_[i].is_visible

----------------------------------------------------------------------------
(* C2.  A call asserting one direction bit only, whose candidate list has  *)
(* a candidate resolving to a visible button, sets the focus to the first  *)
(* such candidate in list order and appends nothing to the queue.          *)

C2_FirstVisibleCandidateWins ==
  IsHandleControllerInput /\ FocusedAtEntry # 0 =>
    \A d \in Directions :
      last.logical_input = {d} /\ NavigablePositions(d) # {} =>
        /\ \E k \in NavigablePositions(d) :
             /\ \A j \in NavigablePositions(d) : k <= j
             /\ current_focus_ = Candidates(d)[k]
        /\ unhandled_selections_ = last.unhandled_selections_

\* The winning candidate came after a candidate that was skipped and before
\* one that resolves to a visible button too.
C2_Witness ==
  /\ IsHandleControllerInput /\ FocusedAtEntry # 0
  /\ \E d \in Directions :
       /\ last.logical_input = {d}
       /\ \E k \in NavigablePositions(d) :
            /\ k > 1
            /\ current_focus_ = Candidates(d)[k]
            /\ \E j \in NavigablePositions(d) : j > k /\ Candidates(d)[j] # Candidates(d)[k]
  /\ last.unhandled_selections_ # <<>>
  /\ unhandled_selections_ = last.unhandled_selections_

----------------------------------------------------------------------------
(* C3.  Each asserted direction whose candidate list is absent, empty or   *)
(* without a candidate resolving to a visible button appends exactly one   *)
(* event (invalid input, touch source) and leaves the focus alone: the     *)
(* touch-tagged events a call appends are as many as its dead ends, each   *)
(* carries the invalid-input identity and not the controller passed in,    *)
(* and when every asserted direction is a dead end the focus is unchanged. *)

C3_DeadEndPushesInvalidInput ==
  IsHandleControllerInput /\ FocusedAtEntry # 0 =>
    /\ KeepsQueued
    /\ Cardinality({k \in 1..Len(Appended) : Appended[k].controller_id = kTouchController})
         = Cardinality(DeadEnds)
    /\ \A k \in 1..Len(Appended) :
         Appended[k].controller_id = kTouchController => Appended[k] = NavigationFailure
    /\ (DeadEnds = last.logical_input \cap Directions => current_focus_ = last.current_focus_)

\* One call met an absent list, an empty list and a list whose only
\* candidate is hidden, and appended three events.
C3_Witness ==
  /\ IsHandleControllerInput /\ FocusedAtEntry # 0
  /\ last.logical_input = {LogicalInputs_Up, LogicalInputs_Down, LogicalInputs_Left}
  /\ DeadEnds = last.logical_input
  /\ Candidates(LogicalInputs_Up) # <<>>
  /\ Appended = <<NavigationFailure, NavigationFailure, NavigationFailure>>
  /\ current_focus_ = last.current_focus_

----------------------------------------------------------------------------
(* C4.  The select event of a call carries the controller passed in and    *)
(* the identity of the button holding focus if that button is active, the  *)
(* invalid-input identity otherwise, whatever other bits the call asserts. *)
(* The button holding focus is read both ways: the one focused when the    *)
(* call began, or the one focused when the select bit is handled.          *)

SelectEventFor(i) ==
  IF button_list_[i].is_active THEN GetId(button_list_[i]) ELSE ButtonId_InvalidInput

C4_SelectNamesActiveFocus ==
  IsHandleControllerInput /\ FocusedAtEntry # 0
    /\ LogicalInputs_Select \in last.logical_input =>
      LET select == Appended[Cardinality(DeadEnds) + 1]
      IN /\ select.controller_id = last.controller_id
         /\ \/ select.button_id = SelectEventFor(FocusedAtEntry)
            \/ select.button_id = SelectEventFor(Resolved(current_focus_))

----------------------------------------------------------------------------
(* C5.  When no button declares the identity in focus, a call changes      *)
(* neither the focus nor the queue, whatever bits it asserts.              *)

C5_NoOpWhenFocusUnresolved ==
  IsHandleControllerInput /\ Declaring(last.current_focus_) = {} =>
    /\ current_focus_ = last.current_focus_
    /\ unhandled_selections_ = last.unhandled_selections_

\* Every bit asserted on a menu with buttons and a pending event, the focus
\* matching none of the buttons.
C5_Witness ==
  /\ IsHandleControllerInput
  /\ Declaring(last.current_focus_) = {}
  /\ last.logical_input = LogicalInputs
  /\ button_list_ # <<>>
  /\ last.unhandled_selections_ # <<>>
  /\ unhandled_selections_ = last.unhandled_selections_

----------------------------------------------------------------------------
(* C6.  As claimed: when the identity in focus resolves to a button that   *)
(* is hidden, a call changes neither the focus nor the queue.              *)

FocusHiddenAtEntry ==
  FocusedAtEntry # 0 /\ ~button_list_[FocusedAtEntry].is_visible

AssertedCount(bit) == IF bit \in last.logical_input THEN 1 ELSE 0

C6_NoOpWhenFocusHidden ==
  IsHandleControllerInput /\ FocusHiddenAtEntry =>
    /\ current_focus_ = last.current_focus_
    /\ unhandled_selections_ = last.unhandled_selections_

(* C6, amended.  When the identity in focus resolves to a hidden button,   *)
(* the call is handled as for a visible one: it appends one event per      *)
(* dead-end direction, one for the select bit and one for the cancel bit,  *)
(* and it leaves both focus and queue unchanged only when no bit is        *)
(* asserted.                                                               *)

C6_HiddenFocusIsHandled ==
  IsHandleControllerInput /\ FocusHiddenAtEntry =>
    /\ KeepsQueued
    /\ Len(Appended) = Cardinality(DeadEnds) + AssertedCount(LogicalInputs_Select)
                         + AssertedCount(LogicalInputs_Cancel)
    /\ (last.logical_input = {}) <=>
         /\ current_focus_ = last.current_focus_
         /\ unhandled_selections_ = last.unhandled_selections_

\* From a hidden focused button a call moved the focus and appended the select
\* and the cancel event.
C6_Witness ==
  /\ IsHandleControllerInput /\ FocusHiddenAtEntry
  /\ current_focus_ # last.current_focus_
  /\ {LogicalInputs_Select, LogicalInputs_Cancel} \subseteq last.logical_input
  /\ Len(Appended) >= 2

----------------------------------------------------------------------------
(* C7.  The events one call appends are, in this order: one navigation     *)
(* failure per dead-end direction, then the select event, then the cancel  *)
(* event (cancel identity, the controller passed in).  Select and cancel   *)
(* alone on a focused active button E append (E, controller) followed by   *)
(* (cancel, controller).                                                   *)

C7_AppendOrder ==
  IsHandleControllerInput /\ FocusedAtEntry # 0 =>
    LET n == Cardinality(DeadEnds)
        s == AssertedCount(LogicalInputs_Select)
        c == AssertedCount(LogicalInputs_Cancel)
    IN /\ KeepsQueued
       /\ Len(Appended) = n + s + c
       /\ \A k \in 1..n : Appended[k] = NavigationFailure
       /\ s = 1 => /\ Appended[n + 1].controller_id = last.controller_id
                   /\ Appended[n + 1].button_id # ButtonId_Cancel
       /\ c = 1 => Appended[n + s + 1] = MenuSelection(ButtonId_Cancel, last.controller_id)
       /\ ( /\ last.logical_input = {LogicalInputs_Select, LogicalInputs_Cancel}
            /\ button_list_[FocusedAtEntry].is_active )
          => Appended = <<MenuSelection(last.current_focus_, last.controller_id),
                          MenuSelection(ButtonId_Cancel, last.controller_id)>>

\* A call with dead ends, select and cancel appended behind a pending event.
C7_Witness ==
  /\ IsHandleControllerInput /\ FocusedAtEntry # 0
  /\ Cardinality(DeadEnds) >= 2
  /\ {LogicalInputs_Select, LogicalInputs_Cancel} \subseteq last.logical_input
  /\ last.unhandled_selections_ # <<>>
  /\ Len(Appended) = Cardinality(DeadEnds) + 2

----------------------------------------------------------------------------
(* C8.  AdvanceFrame empties the queue before it repopulates it: no event  *)
(* queued before an AdvanceFrame call is in the queue after it or is       *)
(* returned by a later GetRecentSelection, so the queue never holds events *)
(* of more than one frame; right after AdvanceFrame every queued event is  *)
(* a touch-tagged event of this frame.                                     *)

IsAdvanceFrame == last.op = "AdvanceFrame"

C8_NoEventOutlivesItsFrame ==
  /\ \A k \in 1..Len(unhandled_selections_) : ~unhandled_selections_[k].stale
  /\ \A k \in 1..Len(last.rets) : ~last.rets[k].stale
  /\ IsAdvanceFrame =>
       \A k \in 1..Len(unhandled_selections_) :
         unhandled_selections_[k].controller_id = kTouchController

\* AdvanceFrame found an undrained controller event pending, dropped it, and
\* queued the events of the buttons that triggered during the call.
C8_Witness ==
  /\ IsAdvanceFrame
  /\ \E k \in 1..Len(last.unhandled_selections_) :
       last.unhandled_selections_[k].controller_id \in ControllerIds
  /\ Cardinality(last.triggered) >= 2
  /\ Len(unhandled_selections_) = Cardinality(last.triggered)

----------------------------------------------------------------------------
(* C9.  After AdvanceFrame the queue holds one event per button that       *)
(* triggered in the call and none for the others, in collection order:     *)
(* (the button's identity, touch) for an active button, (invalid input,    *)
(* touch) for an inactive one.                                             *)

\* The k-th triggered button in collection order.
TriggeredAt(k) ==
  CHOOSE i \in last.triggered : Cardinality({j \in last.triggered : j < i}) = k - 1

C9_OneEventPerTriggeredButton ==
  IsAdvanceFrame =>
    /\ Len(unhandled_selections_) = Cardinality(last.triggered)
    /\ \A k \in 1..Len(unhandled_selections_) :
         unhandled_selections_[k] = MenuSelection(SelectEventFor(TriggeredAt(k)),
                                                  kTouchController)

\* An active and an inactive button triggered, a third one did not.
C9_Witness ==
  /\ IsAdvanceFrame
  /\ \E i, j \in last.triggered : button_list_[i].is_active /\ ~button_list_[j].is_active
  /\ \E i \in 1..Len(button_list_) : i \notin last.triggered
  /\ Len(unhandled_selections_) = 2

----------------------------------------------------------------------------
(* C10.  Draining is first in, first out and ends: of N consecutive        *)
(* GetRecentSelection calls on a queue of M events, the first M return the *)
(* events in the order they were appended, each once, and the others       *)
(* return (undefined identity, undefined source).                          *)

IsGetRecentSelection == last.op = "GetRecentSelection"

C10_DrainIsFifo ==
  IsGetRecentSelection =>
    LET queued == last.unhandled_selections_
        n == Len(last.rets)
    IN /\ \A k \in 1..n :
            last.rets[k] = IF k <= Len(queued) THEN queued[k]
                           ELSE MenuSelection(ButtonId_Undefined, kUndefinedController)
       /\ unhandled_selections_ = SubSeq(queued, n + 1, Len(queued))

\* A queue of two different events or more was drained and read twice more.
C10_Witness ==
  /\ IsGetRecentSelection
  /\ Len(last.unhandled_selections_) >= 2
  /\ last.unhandled_selections_[1] # last.unhandled_selections_[2]
  /\ Len(last.rets) >= Len(last.unhandled_selections_) + 2

----------------------------------------------------------------------------
(* C11.  GetRecentSelection on an empty queue returns (undefined identity, *)
(* undefined source) and leaves the queue empty and the focus as it was;   *)
(* however many times the call is repeated, every call returns the same    *)
(* and leaves the same state.                                              *)

C11_EmptyDrainIsIdempotent ==
  IsGetRecentSelection /\ last.unhandled_selections_ = <<>> =>
    /\ \A k \in 1..Len(last.rets) :
         last.rets[k] = MenuSelection(ButtonId_Undefined, kUndefinedController)
    /\ unhandled_selections_ = <<>>
    /\ current_focus_ = last.current_focus_

\* The call was repeated MaxDrain times on the empty queue of a menu that has
\* buttons and a focused button.
C11_Witness ==
  /\ IsGetRecentSelection
  /\ last.unhandled_selections_ = <<>>
  /\ Len(last.rets) = MaxDrain
  /\ FocusedAtEntry # 0

----------------------------------------------------------------------------
(* C12.  Setup with a null definition, from any state, leaves no button,   *)
(* no image, the focus at the undefined identity and the queue empty.      *)

IsSetup == last.op = "Setup"

C12_SetupNullClears ==
  IsSetup /\ last.menu_def = nullptr =>
    /\ button_list_ = <<>>
    /\ image_list_ = <<>>
    /\ current_focus_ = ButtonId_Undefined
    /\ unhandled_selections_ = <<>>

\* The call found a focus on some button and an event pending, so buttons
\* too.
C12_Witness ==
  /\ IsSetup /\ last.menu_def = nullptr
  /\ last.current_focus_ \in WidgetIds
  /\ last.unhandled_selections_ # <<>>
  /\ button_list_ = <<>>

----------------------------------------------------------------------------
(* C13.  Setup with a definition declaring N buttons and M images, from    *)
(* any state and whichever asset lookups fail, leaves exactly N buttons    *)
(* and M images, the focus at the definition's starting selection and the  *)
(* queue empty.                                                            *)

C13_SetupBuildsEveryEntry ==
  IsSetup /\ last.menu_def # nullptr =>
    LET def == UiGroupAt(last.menu_def)
    IN /\ Len(button_list_) = ArrayLength(def.button_list)
       /\ Len(image_list_) = ArrayLength(def.static_image_list)
       /\ \A i \in 1..Len(button_list_) :
            button_list_[i].button_def = [menu_def |-> last.menu_def, i |-> i]
       /\ \A i \in 1..Len(image_list_) :
            image_list_[i].image_def = [menu_def |-> last.menu_def, i |-> i]
       /\ current_focus_ = def.starting_selection
       /\ unhandled_selections_ = <<>>

\* Every lookup failed in a call that found an event pending and another
\* focus, for a definition with three buttons and three images.
C13_Witness ==
  /\ IsSetup /\ last.menu_def # nullptr
  /\ last.matman = {}
  /\ last.unhandled_selections_ # <<>>
  /\ last.current_focus_ # current_focus_
  /\ Len(button_list_) = 3 /\ Len(image_list_) = 3
  /\ \A i \in 1..Len(button_list_) : ~button_list_[i].shader
  /\ \A i \in 1..Len(image_list_) : ~image_list_[i].materials

----------------------------------------------------------------------------
(* C14.  In every reachable state, after Setup, SetFocus,                  *)
(* HandleControllerInput or AdvanceFrame, each button's highlight flag is  *)
(* true exactly when the button's identity is the focus.                   *)

HighlightFollowsFocus ==
  \A i \in 1..Len(button_list_) :
    button_list_[i].is_highlighted <=> (GetId(button_list_[i]) = current_focus_)

C14_HighlightAlwaysFollowsFocus == HighlightFollowsFocus

----------------------------------------------------------------------------
(* C16.  Right after an AdvanceFrame call each button's highlight flag     *)
(* equals (identity = focus); when the identities are unique at most one   *)
(* button is highlighted, and none is when no button declares the focus.   *)

Highlighted == {i \in 1..Len(button_list_) : button_list_[i].is_highlighted}

UniqueIds ==
  \A i, j \in 1..Len(button_list_) :
    GetId(button_list_[i]) = GetId(button_list_[j]) => i = j

C16_HighlightRecomputedEachFrame ==
  IsAdvanceFrame =>
    /\ HighlightFollowsFocus
    /\ UniqueIds => Cardinality(Highlighted) <= 1
    /\ Declaring(current_focus_) = {} => Highlighted = {}

\* The frame found the focus moved off the starting selection: it left the
\* second of two buttons highlighted and the first one not.
C16_Witness ==
  /\ IsAdvanceFrame
  /\ UniqueIds
  /\ Len(button_list_) = 2
  /\ current_focus_ # UiGroupAt(button_list_[1].button_def.menu_def).starting_selection
  /\ Highlighted = {2}

\* A frame with the focus on no button left no button highlighted.
C16_WitnessNone ==
  /\ IsAdvanceFrame
  /\ button_list_ # <<>>
  /\ Declaring(current_focus_) = {}
  /\ Highlighted = {}

----------------------------------------------------------------------------
(* C15.  One Render call draws, in this order: the images not flagged      *)
(* render-after-buttons in collection order, the buttons in collection     *)
(* order, the images flagged render-after-buttons in collection order;     *)
(* every image and every button is drawn exactly once, and neither the     *)
(* focus nor the queue changes.                                            *)

IsRender == last.op = "Render"

\* The pass a draw call belongs to.
Pass(call) ==
  IF call.kind = "TouchscreenButton" THEN 2
  ELSE IF StaticImageDefAt(image_list_[call.i].image_def).render_after_buttons THEN 3
  ELSE 1

TimesDrawn(call) == Cardinality({p \in 1..Len(last.draws) : last.draws[p] = call})

C15_RenderInThreePasses ==
  IsRender =>
    /\ \A p, q \in 1..Len(last.draws) :
         p < q => \/ Pass(last.draws[p]) < Pass(last.draws[q])
                  \/ /\ Pass(last.draws[p]) = Pass(last.draws[q])
                     /\ last.draws[p].i < last.draws[q].i
    /\ \A i \in 1..Len(image_list_) : TimesDrawn(RenderImage(i)) = 1
    /\ \A i \in 1..Len(button_list_) : TimesDrawn(RenderButton(i)) = 1
    /\ Len(last.draws) = Len(image_list_) + Len(button_list_)
    /\ current_focus_ = last.current_focus_
    /\ unhandled_selections_ = last.unhandled_selections_

\* An image flagged render-after-buttons stands in the collection before two
\* that are not; six draw calls, an event pending.
C15_Witness ==
  /\ IsRender
  /\ Len(last.draws) = 6
  /\ Pass(RenderImage(1)) = 3 /\ Pass(RenderImage(2)) = 1 /\ Pass(RenderImage(3)) = 1
  /\ last.draws[6] = RenderImage(1)
  /\ unhandled_selections_ # <<>>

----------------------------------------------------------------------------
(* C17.  The focus is changed only by Setup, by SetFocus and by a          *)
(* HandleControllerInput call in which some asserted direction finds a     *)
(* destination.  Every other step leaves it as it is: AdvanceFrame,        *)
(* GetRecentSelection, Render, the lookups, the host hiding or showing a   *)
(* button, and a HandleControllerInput call whose navigation fails; so a   *)
(* focus on a button the host has hidden stays on it through every         *)
(* AdvanceFrame.                                                           *)

\* The candidate list of button i for a direction (empty when absent).
ListOf(i, d) ==
  LET def == ButtonDefAt(button_list_[i].button_def)
      list == CASE d = LogicalInputs_Up -> def.nav_up
                [] d = LogicalInputs_Down -> def.nav_down
                [] d = LogicalInputs_Left -> def.nav_left
                [] d = LogicalInputs_Right -> def.nav_right
  IN IF list.null THEN <<>> ELSE list.v

\* From the button now in focus, direction d finds a destination.
FindsDestination(d) ==
  /\ Resolved(current_focus_) # 0
  /\ \E k \in 1..Len(ListOf(Resolved(current_focus_), d)) :
       Navigable(ListOf(Resolved(current_focus_), d)[k])

FocusChangingStep ==
  \/ \E menu_def \in MenuDefs, matman \in SUBSET AssetNames, rec \in BOOLEAN :
       Setup(menu_def, matman, rec)
  \/ \E new_focus \in FocusIds, rec \in BOOLEAN : SetFocus(new_focus, rec)
  \/ \E logical_input \in SUBSET LogicalInputs, controller_id \in ControllerIds,
        rec \in BOOLEAN :
       /\ HandleControllerInput(logical_input, controller_id, rec)
       /\ \E d \in logical_input \cap Directions : FindsDestination(d)

C17_FocusFrame ==
  [][ /\ current_focus_' # current_focus_ => FocusChangingStep
      /\ last'.op \in {"AdvanceFrame", "GetRecentSelection", "Render", "FindButtonById",
                        "FindImageById", "set_is_visible"}
           => current_focus_' = current_focus_ ]_vars

\* AdvanceFrame ran, with buttons triggering, while the focus was on a
\* button the host had hidden, and the focus is still on it.
C17_Witness ==
  /\ IsAdvanceFrame
  /\ FocusHiddenAtEntry
  /\ last.triggered # {}
  /\ current_focus_ = last.current_focus_
  /\ Resolved(current_focus_) # 0 /\ ~button_list_[Resolved(current_focus_)].is_visible

----------------------------------------------------------------------------
(* C18.  FindButtonById and FindImageById return the first entry in        *)
(* collection order that has the requested identity, or nothing when no    *)
(* entry has it, and change neither focus nor queue.  When two buttons     *)
(* share an identity every lookup resolves to the first of them: a         *)
(* candidate whose first duplicate is hidden is skipped even if a later    *)
(* duplicate is visible, and the select event follows the activity of the  *)
(* first duplicate of the focus.                                           *)

DeclaringImage(id) == {i \in 1..Len(image_list_) : GetImageId(image_list_[i]) = id}

\* found is the first of the entries in among, or 0 when there is none.
IsFirstOf(found, among) ==
  IF among = {} THEN found = 0
  ELSE found \in among /\ \A j \in among : found <= j

C18_LookupsResolveToFirst ==
  /\ last.op = "FindButtonById" =>
       /\ IsFirstOf(last.found, Declaring(last.id))
       /\ current_focus_ = last.current_focus_
       /\ unhandled_selections_ = last.unhandled_selections_
  /\ last.op = "FindImageById" =>
       /\ IsFirstOf(last.found, DeclaringImage(last.id))
       /\ current_focus_ = last.current_focus_
       /\ unhandled_selections_ = last.unhandled_selections_
  /\ IsHandleControllerInput /\ Declaring(last.current_focus_) # {} =>
       LET focused == CHOOSE i \in Declaring(last.current_focus_) :
                        \A j \in Declaring(last.current_focus_) : i <= j
       IN /\ \A d \in Directions :
               ( /\ last.logical_input = {d}
                 /\ \A k \in 1..Len(ListOf(focused, d)) :
                      \E i \in 1..Len(button_list_) :
                        /\ IsFirstOf(i, Declaring(ListOf(focused, d)[k]))
                        /\ ~button_list_[i].is_visible )
               => /\ current_focus_ = last.current_focus_
                  /\ Appended = <<NavigationFailure>>
          /\ last.logical_input = {LogicalInputs_Select} =>
               Appended = <<MenuSelection(SelectEventFor(focused), last.controller_id)>>

\* The only candidate is declared by two buttons: the first is hidden, the
\* second visible, and the navigation failed.
C18_Witness ==
  /\ IsHandleControllerInput /\ FocusedAtEntry # 0
  /\ \E d \in Directions :
       /\ last.logical_input = {d}
       /\ Len(Candidates(d)) = 1
       /\ \E i, j \in Declaring(Candidates(d)[1]) :
            i < j /\ ~button_list_[i].is_visible /\ button_list_[j].is_visible
  /\ current_focus_ = last.current_focus_
  /\ Appended = <<NavigationFailure>>

\* A lookup of an identity two buttons declare; one of an identity two images
\* declare.
C18_WitnessButton ==
  last.op = "FindButtonById" /\ Cardinality(Declaring(last.id)) = 2 /\ last.found = 2

C18_WitnessImage ==
  last.op = "FindImageById" /\ Cardinality(DeclaringImage(last.id)) = 2 /\ last.found = 1

----------------------------------------------------------------------------
(* C19.  In one HandleControllerInput call asserting several directions,   *)
(* every direction takes its candidates from the button in focus when the  *)
(* call began.  The focus after the call is the destination of the last    *)
(* direction, in the order up, down, left, right, that found one, or the   *)
(* focus at entry when none did; one navigation-failure event is appended  *)
(* per direction that found none.                                          *)

DirectionOrder(d) ==
  CASE d = LogicalInputs_Up -> 1
    [] d = LogicalInputs_Down -> 2
    [] d = LogicalInputs_Left -> 3
    [] d = LogicalInputs_Right -> 4

\* The asserted directions that find a destination from the entry button.
Successes == (last.logical_input \cap Directions) \ DeadEnds

\* The destination of direction d: its first candidate that resolves to a
\* visible button.
DestinationOf(d) ==
  Candidates(d)[CHOOSE k \in NavigablePositions(d) : \A j \in NavigablePositions(d) : k <= j]

C19_DirectionsReadEntryButton ==
  IsHandleControllerInput /\ FocusedAtEntry # 0 =>
    /\ IF Successes = {} THEN current_focus_ = last.current_focus_
       ELSE \E d \in Successes :
              /\ \A e \in Successes : DirectionOrder(e) <= DirectionOrder(d)
              /\ current_focus_ = DestinationOf(d)
    /\ KeepsQueued
    /\ Cardinality({k \in 1..Len(Appended) : Appended[k] = NavigationFailure})
         = Cardinality(DeadEnds)

\* Up, left and right asserted: up and right found different destinations,
\* left found none, and the button up moved the focus to has no list for right.
C19_Witness ==
  /\ IsHandleControllerInput /\ FocusedAtEntry # 0
  /\ last.logical_input = {LogicalInputs_Up, LogicalInputs_Left, LogicalInputs_Right}
  /\ Successes = {LogicalInputs_Up, LogicalInputs_Right}
  /\ DestinationOf(LogicalInputs_Up) # DestinationOf(LogicalInputs_Right)
  /\ ListOf(Resolved(DestinationOf(LogicalInputs_Up)), LogicalInputs_Right) = <<>>
  /\ current_focus_ = DestinationOf(LogicalInputs_Right)
  /\ Appended = <<NavigationFailure>>

----------------------------------------------------------------------------
(* C20.  Provided no button is declared with a sentinel identity, in every *)
(* reachable state every queued event carries the invalid-input identity,  *)
(* the cancel identity or the identity of a button of the present          *)
(* collection, never the undefined identity; so GetRecentSelection returns *)
(* (undefined identity, undefined source) exactly when the queue was empty *)
(* at the call.                                                            *)

NoSentinelButton == \A i \in 1..Len(button_list_) : GetId(button_list_[i]) \in WidgetIds

QueueableIds ==
  {ButtonId_InvalidInput, ButtonId_Cancel}
    \cup {GetId(button_list_[i]) : i \in 1..Len(button_list_)}

C20_QueueContent ==
  NoSentinelButton =>
    /\ \A k \in 1..Len(unhandled_selections_) :
         /\ unhandled_selections_[k].button_id \in QueueableIds
         /\ unhandled_selections_[k].button_id # ButtonId_Undefined
    /\ IsGetRecentSelection =>
         \A k \in 1..Len(last.rets) :
           (last.rets[k] = MenuSelection(ButtonId_Undefined, kUndefinedController))
             <=> (k > Len(last.unhandled_selections_))

\* A queue holding a button's identity and the invalid-input identity was
\* drained, and the call after the last event returned the sentinel.
C20_Witness ==
  /\ IsGetRecentSelection
  /\ NoSentinelButton
  /\ \E j, k \in 1..Len(last.unhandled_selections_) :
       /\ last.unhandled_selections_[j].button_id \in WidgetIds
       /\ last.unhandled_selections_[k].button_id = ButtonId_InvalidInput
  /\ Len(last.rets) = Len(last.unhandled_selections_) + 1
  /\ last.rets[Len(last.rets)] = MenuSelection(ButtonId_Undefined, kUndefinedController)

\* One call queued the three kinds of identity.
C20_WitnessKinds ==
  /\ IsHandleControllerInput
  /\ {unhandled_selections_[k].button_id : k \in 1..Len(unhandled_selections_)}
       = {ButtonId_InvalidInput, ButtonId_Cancel, last.current_focus_}

====
